---------------------------- MODULE Spec2Model ----------------------------
(***************************************************************************)
(* Model of the mirror-screen Raycast extension.                           *)
(*                                                                         *)
(*   SpecDomain  the domain functions (toggleDisplay, findDisplays and     *)
(*               their screenMirror twins) around one bridge call          *)
(*   SpecLua     one run of a generated automation script on an            *)
(*               accessibility tree, statement by statement               *)
(*   SpecUI      the Command component: cache, loading flag, handlers,     *)
(*               quicklink effect, overlapping requests                    *)
(*                                                                         *)
(* Text is a sequence of tokens; a token is a character or a fixed piece   *)
(* of text that the program only ever handles as a whole.                  *)
(***************************************************************************)
EXTENDS Naturals, Sequences, FiniteSets, Bags, TLC

VARIABLES
  call,         \* SpecDomain: the domain call in progress
  lua,          \* SpecLua: the script run in progress
  world,        \* SpecLua: the accessibility state the script runs against
  screenList,   \* SpecUI: useCachedState("screen-displays")
  isLoading,    \* SpecUI: useState(false)
  launchContext,\* SpecUI: launchContext.displayName or NoName
  effectDue,    \* SpecUI: the useEffect is scheduled (mount, or a dependency changed)
  autoToggled,  \* SpecUI: whether the effect has called toggleDisplayMirroring: never, once, again
  inflight,     \* SpecUI: the bag of handler invocations awaiting their domain call
  completed     \* SpecUI: what the handler that finished last did

domVars == <<call>>
luaVars == <<lua, world>>
uiVars  == <<screenList, isLoading, launchContext, effectDue, autoToggled, inflight,
             completed>>
vars    == <<call, lua, world, screenList, isLoading, launchContext, effectDue, autoToggled,
             inflight, completed>>

----------------------------------------------------------------------------
(* Bounds of the model *)

MaxIdentLen == 2
MaxTreeDepth == 11
MaxInFlight == 2

----------------------------------------------------------------------------
(* Text *)

DQ == "\""
BS == "\\"
NL == "\n"

\* " (Currently Mirroring)": what the discovery script appends and the UI strips.
ActiveMarker == <<" ", "(Currently ", "Mirror", "ing)">>
\* "(Currently Mirroring)": what the UI tests with includes().
MarkerText == <<"(Currently ", "Mirror", "ing)">>
ScreenMirroring == <<"Screen ", "Mirror", "ing">>
ControlCenter == <<"Control Center">>
Mirror == <<"Mirror">>

MatchesAt(s, p, i) ==
  /\ i >= 1
  /\ i + Len(p) - 1 <= Len(s)
  /\ SubSeq(s, i, i + Len(p) - 1) = p

\* String.prototype.includes / a successful string.find
Includes(s, p) == \E i \in 1..(Len(s) + 1) : MatchesAt(s, p, i)

\* String.prototype.indexOf, 1-based; 0 when absent
IndexOf(s, p) ==
  IF Includes(s, p)
  THEN CHOOSE i \in 1..(Len(s) + 1) :
         /\ MatchesAt(s, p, i)
         /\ \A j \in 1..(i - 1) : ~MatchesAt(s, p, j)
  ELSE 0

\* String.prototype.replace with a string pattern: the first occurrence only
Replace(s, p, r) ==
  LET i == IndexOf(s, p)
  IN IF i = 0 THEN s
     ELSE SubSeq(s, 1, i - 1) \o r \o SubSeq(s, i + Len(p), Len(s))

\* The number of places at which p occurs in s
Occurrences(s, p) == Cardinality({i \in 1..Len(s) : MatchesAt(s, p, i)})

RECURSIVE SeqsUpTo(_, _)
SeqsUpTo(S, n) ==
  IF n = 0 THEN {<<>>}
  ELSE LET shorter == SeqsUpTo(S, n - 1)
       IN shorter \cup {Append(s, c) : s \in shorter, c \in S}

----------------------------------------------------------------------------
(* JavaScript values *)

Undefined == [t |-> "undefined"]
JNull == [t |-> "null"]
JNum(n) == [t |-> "number", v |-> n]
JBool(b) == [t |-> "boolean", v |-> b]
JStr(s) == [t |-> "string", v |-> s]
JArray(a) == [t |-> "array", v |-> a]
JObject(o) == [t |-> "object", v |-> o]

Truthy(x) ==
  CASE x.t = "boolean" -> x.v
    [] x.t = "string" -> x.v # <<>>
    [] x.t = "number" -> x.v # 0
    [] x.t \in {"array", "object"} -> TRUE
    [] OTHER -> FALSE

\* An operand used as it is.
OrElseFirst(a, b) == a

\* a || b
OrElse(a, b) == IF Truthy(a) THEN a ELSE b

\* value.name: throws on null and undefined, undefined on a missing property
HasProps(x) == x.t \notin {"null", "undefined"}
Prop(x, name) ==
  IF x.t = "object" /\ name \in DOMAIN x.v THEN x.v[name] ELSE Undefined


----------------------------------------------------------------------------
(* Automation-script generator: the toggle script as text *)

\* toggleDisplay.ts getCode: the template literal with its three ${displayTitle}
\* (the log line, the searchByTitle argument, the success message).
getCode(displayTitle) ==
  <<"logger.i(", DQ, "Looking for display: ">> \o displayTitle \o <<DQ, ")">>
  \o <<"searchByTitle(dialogWindow, 0, ", DQ>> \o displayTitle \o <<DQ, ")">>
  \o <<"message = ", DQ, "Clicked on ", DQ, " .. ", DQ>> \o displayTitle
  \o <<DQ, "return main()">>

\* screenMirror generateToggleDisplayLua: the same three interpolations.
generateToggleDisplayLua(displayTitle) ==
  <<"logger.i(", DQ, "Looking for display: ">> \o displayTitle \o <<DQ, ")">>
  \o <<"searchByTitle(dialogWindow, 0, ", DQ>> \o displayTitle \o <<DQ, ")">>
  \o <<"message = ", DQ, "Clicked on ", DQ, " .. ", DQ>> \o displayTitle
  \o <<DQ, "return hs.json.encode">>

\* What a Lua string literal must hold for its value to be s.
LuaEscape(s) ==
  LET RECURSIVE esc(_)
      esc(i) ==
        IF i > Len(s) THEN <<>>
        ELSE (CASE s[i] = DQ -> <<BS, DQ>>
                [] s[i] = BS -> <<BS, BS>>
                [] s[i] = NL -> <<BS, "n">>
                [] OTHER -> <<s[i]>>) \o esc(i + 1)
  IN esc(1)

\* Lua's reading of a double-quoted literal whose first character is text[i]:
\* it ends at the first unescaped quote; a raw line break or the end of the
\* text leaves it unfinished.
RECURSIVE LuaStringFrom(_, _, _)
LuaStringFrom(text, i, acc) ==
  IF i > Len(text) THEN [ok |-> FALSE]
  ELSE IF text[i] = DQ THEN [ok |-> TRUE, value |-> acc, next |-> i + 1]
  ELSE IF text[i] = NL THEN [ok |-> FALSE]
  ELSE IF text[i] = BS THEN
    IF i + 1 > Len(text) THEN [ok |-> FALSE]
    ELSE IF text[i + 1] \in {DQ, BS, NL}
      THEN LuaStringFrom(text, i + 2, Append(acc, text[i + 1]))
    ELSE IF text[i + 1] = "n" THEN LuaStringFrom(text, i + 2, Append(acc, NL))
    ELSE IF text[i + 1] = "a" THEN LuaStringFrom(text, i + 2, Append(acc, "<bel>"))
    ELSE [ok |-> FALSE]
  ELSE LuaStringFrom(text, i + 1, Append(acc, text[i]))

\* The literal that follows `opener` in the script, when the script still reads
\* as the program the template spells (the literal is followed by `closer`).
LiteralAfter(text, opener, closer) ==
  LET i == IndexOf(text, <<opener, DQ>>)
      r == LuaStringFrom(text, i + 2, <<>>)
  IN IF i > 0 /\ r.ok /\ r.next <= Len(text) /\ text[r.next] = closer
     THEN [ok |-> TRUE, value |-> r.value]
     ELSE [ok |-> FALSE]

\* The targetTitle the generated script passes to searchByTitle.
ScriptTarget(text) == LiteralAfter(text, "searchByTitle(dialogWindow, 0, ", ")")

\* The script is the template's program: all three literals end where the
\* template ends them.
ScriptIntact(text) ==
  /\ LiteralAfter(text, "logger.i(", ")").ok
  /\ ScriptTarget(text).ok
  /\ \/ LiteralAfter(text, " .. ", "return main()").ok
     \/ LiteralAfter(text, " .. ", "return hs.json.encode").ok

----------------------------------------------------------------------------
(* Bridge: callHammerspoon(luaCode) rejects, or resolves to the text the   *)
(* automation host printed                                                 *)

Reject == [kind |-> "reject"]
Text(t) == [kind |-> "text", text |-> t]

\* Response text that is not JSON, and response text that is the JSON of v.
NotJson == [json |-> FALSE]
JsonText(v) == [json |-> TRUE, value |-> v]

\* JSON.parse
JsonParse(text) ==
  IF text.json THEN [threw |-> FALSE, value |-> text.value] ELSE [threw |-> TRUE]

Throw == [threw |-> TRUE]
Return(v) == [threw |-> FALSE, value |-> v]

Pending == [state |-> "pending"]
Fulfilled(v) == [state |-> "fulfilled", value |-> v]
Rejected == [state |-> "rejected"]

----------------------------------------------------------------------------
(* Domain functions *)

GenericFailureText == <<"Failed to interact with display">>

\* A try block that leaves the message out of the result.
toggleDisplayTryDropsMessage(outcome) ==
  IF outcome.kind = "reject" THEN Throw
  ELSE LET parsed == JsonParse(outcome.text)
       IN IF parsed.threw THEN Throw
          ELSE IF ~HasProps(parsed.value) THEN Throw
          ELSE Return([success |-> OrElse(Prop(parsed.value, "success"), JBool(FALSE)),
                       message |-> Undefined,
                       error |-> Prop(parsed.value, "error")])

\* The try block of toggleDisplay from the await on.
toggleDisplayTry(outcome) ==
  IF outcome.kind = "reject" THEN Throw
  ELSE LET parsed == JsonParse(outcome.text)
       IN IF parsed.threw THEN Throw
          ELSE IF ~HasProps(parsed.value) THEN Throw
          ELSE Return([success |-> OrElse(Prop(parsed.value, "success"), JBool(FALSE)),
                       message |-> Prop(parsed.value, "message"),
                       error |-> Prop(parsed.value, "error")])

\* toggleDisplay with a catch block that rethrows.
toggleDisplayRethrows(outcome) ==
  LET body == toggleDisplayTry(outcome)
  IN IF body.threw THEN Rejected ELSE Fulfilled(body.value)

\* toggleDisplay: the promise it settles to, given the bridge's outcome.
toggleDisplay(outcome) ==
  LET body == toggleDisplayTry(outcome)
  IN IF body.threw
     THEN Fulfilled([success |-> JBool(FALSE), message |-> Undefined,
                     error |-> JStr(GenericFailureText)])
     ELSE Fulfilled(body.value)

\* screenMirror's toggleDisplayMirroring: the same body.
toggleDisplayMirroringTry(outcome) ==
  IF outcome.kind = "reject" THEN Throw
  ELSE LET parsed == JsonParse(outcome.text)
       IN IF parsed.threw THEN Throw
          ELSE IF ~HasProps(parsed.value) THEN Throw
          ELSE Return([success |-> OrElse(Prop(parsed.value, "success"), JBool(FALSE)),
                       message |-> Prop(parsed.value, "message"),
                       error |-> Prop(parsed.value, "error")])

toggleDisplayMirroring(outcome) ==
  LET body == toggleDisplayMirroringTry(outcome)
  IN IF body.threw
     THEN Fulfilled([success |-> JBool(FALSE), message |-> Undefined,
                     error |-> JStr(GenericFailureText)])
     ELSE Fulfilled(body.value)

\* A projection that drops the last element.
MapDisplaysDropsLast(displays) ==
  [i \in 1..(Len(displays) - 1) |-> [title |-> displays[i].title, role |-> displays[i].role]]

\* result.displays.map((display) => ({title: display.title, role: display.role}))
MapDisplays(displays) ==
  [i \in 1..Len(displays) |-> [title |-> displays[i].title, role |-> displays[i].role]]

\* The try block of findDisplays from the await on.
findDisplaysTry(outcome) ==
  IF outcome.kind = "reject" THEN Throw
  ELSE LET parsed == JsonParse(outcome.text)
       IN IF parsed.threw THEN Throw
          ELSE IF ~HasProps(parsed.value) THEN Throw
          ELSE IF /\ Truthy(Prop(parsed.value, "found"))
                  /\ Truthy(Prop(parsed.value, "displays"))
            THEN IF Prop(parsed.value, "displays").t = "array"
                 THEN Return(MapDisplays(Prop(parsed.value, "displays").v))
                 ELSE Throw
          ELSE Return(<<>>)

\* findDisplays with a catch block that rethrows.
findDisplaysRethrows(outcome) ==
  LET body == findDisplaysTry(outcome)
  IN IF body.threw THEN Rejected ELSE Fulfilled(body.value)

\* findDisplays: the promise it settles to, given the bridge's outcome.
findDisplays(outcome) ==
  LET body == findDisplaysTry(outcome)
  IN IF body.threw THEN Fulfilled(<<>>) ELSE Fulfilled(body.value)

\* screenMirror's findScreenMirroringDisplays: the same body.
findScreenMirroringDisplaysTry(outcome) ==
  IF outcome.kind = "reject" THEN Throw
  ELSE LET parsed == JsonParse(outcome.text)
       IN IF parsed.threw THEN Throw
          ELSE IF ~HasProps(parsed.value) THEN Throw
          ELSE IF /\ Truthy(Prop(parsed.value, "found"))
                  /\ Truthy(Prop(parsed.value, "displays"))
            THEN IF Prop(parsed.value, "displays").t = "array"
                 THEN Return(MapDisplays(Prop(parsed.value, "displays").v))
                 ELSE Throw
          ELSE Return(<<>>)

findScreenMirroringDisplays(outcome) ==
  LET body == findScreenMirroringDisplaysTry(outcome)
  IN IF body.threw THEN Fulfilled(<<>>) ELSE Fulfilled(body.value)

----------------------------------------------------------------------------
(* What the bridge can answer *)

\* The error strings of the toggle scripts.
ToggleErrors ==
  { <<"Could not interact with display">>,
    <<"Screen Mirroring button not found. Please ensure Control Center is accessible.">>,
    <<"Control Center dialog not found after opening">>,
    <<"Display element not found">> }

\* The error strings of the discovery scripts with found = false.
DiscoveryErrors ==
  { <<"Control Center application not found">>,
    <<"Could not access Control Center accessibility element">>,
    <<"Screen Mirroring button not found in Control Center">>,
    <<"Screen Mirroring menu not found">> }

Names == {<<"tv">>, <<"office">>}

Available(name) == [title |-> name, role |-> "AXCheckBox"]
Active(name) == [title |-> name \o ActiveMarker, role |-> "AXDisclosureTriangle"]

\* Display lists a discovery can report.
DisplayLists ==
  { <<>>,
    <<Available(<<"tv">>)>>,
    <<Active(<<"tv">>)>>,
    <<Available(<<"tv">>), Active(<<"office">>)>>,
    <<Active(<<"office">>), Available(<<"tv">>)>> }

\* A list whose elements carry a property the Display type does not have.
ForeignList == <<[title |-> <<"tv">>, role |-> "AXCheckBox", subrole |-> "AXToggle"]>>

\* A loop that leaves out the title of the last display.
TitlesOfAllButLast(displays) ==
  [i \in 1..(IF displays = <<>> THEN 0 ELSE Len(displays) - 1) |-> JStr(displays[i].title)]

TitlesOf(displays) == [i \in 1..Len(displays) |-> JStr(displays[i].title)]

SuccessEnvelope(displays) ==
  JObject([found |-> JBool(TRUE), title |-> JStr(ScreenMirroring),
           app |-> JStr(ControlCenter), displays |-> JArray(displays),
           displayTitles |-> JArray(TitlesOf(displays)),
           displayCount |-> JNum(Len(displays))])

DialogNotFoundEnvelope ==
  JObject([found |-> JBool(TRUE), title |-> JStr(ScreenMirroring),
           app |-> JStr(ControlCenter), error |-> JStr(<<"Dialog not found">>)])

\* A failure return that carries an empty displays table.
FailureEnvelopeWithDisplays(e) ==
  JObject([found |-> JBool(FALSE), error |-> JStr(e), displays |-> JArray(<<>>)])

FailureEnvelope(e) == JObject([found |-> JBool(FALSE), error |-> JStr(e)])

\* Envelopes of the wire format, one whose empty displays table was encoded as
\* an object, and one that carries displays although found is false.
DiscoveryEnvelopes ==
  {SuccessEnvelope(l) : l \in DisplayLists \cup {ForeignList}}
  \cup {DialogNotFoundEnvelope}
  \cup {FailureEnvelope(e) : e \in DiscoveryErrors}
  \cup {JObject([found |-> JBool(TRUE), displays |-> JObject([n |-> JNum(0)])]),
        JObject([found |-> JBool(FALSE), displays |-> JArray(<<Available(<<"tv">>)>>)])}

DiscoveryOutcomes ==
  {Reject, Text(NotJson), Text(JsonText(JNull))}
  \cup {Text(JsonText(e)) : e \in DiscoveryEnvelopes}

\* What a toggle script can print: a failure, a success naming the target it
\* searched for, or text of neither shape.
ToggleOutcomes(script) ==
  {Reject, Text(NotJson), Text(JsonText(JNull)), Text(JsonText(JNum(1))),
   Text(JsonText(JObject([message |-> JStr(<<"ok">>)])))}
  \cup {Text(JsonText(JObject([success |-> JBool(FALSE), error |-> JStr(e)]))) :
          e \in ToggleErrors}
  \cup (IF ScriptIntact(script)
        THEN {Text(JsonText(JObject([success |-> JBool(TRUE),
                message |-> JStr(<<"Clicked on ">> \o ScriptTarget(script).value)])))}
        ELSE {})

----------------------------------------------------------------------------
(* SpecDomain: one call of a domain function *)

IdentChars == {"a", DQ, BS, NL}

\* Identifiers a caller may pass: short texts over IdentChars, and display
\* titles as the cache holds them.
Idents ==
  (SeqsUpTo(IdentChars, MaxIdentLen) \ {<<>>})
  \cup Names \cup {n \o ActiveMarker : n \in Names}

Idle == [pc |-> "idle"]
NoOutcome == [kind |-> "none"]

ToggleFns == {"toggleDisplay", "toggleDisplayMirroring"}
FindFns == {"findDisplays", "findScreenMirroringDisplays"}

\* const luaCode = getCode(displayTitle)
toggleDisplayScript(displayTitle) == getCode(displayTitle)

\* const luaCode = generateToggleDisplayLua(displayTitle)
toggleDisplayMirroringScript(displayTitle) == generateToggleDisplayLua(displayTitle)

\* The call at its await: `sent` lists the scripts passed to callHammerspoon.
Started(fn, arg, script) ==
  [pc |-> "bridge", fn |-> fn, arg |-> arg, script |-> script,
   sent |-> <<script>>, outcome |-> NoOutcome, promise |-> Pending]

CallToggleDisplay ==
  /\ call = Idle
  /\ \E T \in Idents : call' = Started("toggleDisplay", T, toggleDisplayScript(T))
  /\ UNCHANGED <<luaVars, uiVars>>

CallToggleDisplayMirroring ==
  /\ call = Idle
  /\ \E T \in Idents :
       call' = Started("toggleDisplayMirroring", T, toggleDisplayMirroringScript(T))
  /\ UNCHANGED <<luaVars, uiVars>>

CallFindDisplays ==
  /\ call = Idle
  /\ call' = Started("findDisplays", <<>>, <<"findDisplays.getCode()">>)
  /\ UNCHANGED <<luaVars, uiVars>>

CallFindScreenMirroringDisplays ==
  /\ call = Idle
  /\ call' = Started("findScreenMirroringDisplays", <<>>, <<"generateFindDisplaysLua()">>)
  /\ UNCHANGED <<luaVars, uiVars>>

\* The promise of the domain function once the bridge has answered.
Settle(fn, outcome) ==
  CASE fn = "toggleDisplay" -> toggleDisplay(outcome)
    [] fn = "toggleDisplayMirroring" -> toggleDisplayMirroring(outcome)
    [] fn = "findDisplays" -> findDisplays(outcome)
    [] fn = "findScreenMirroringDisplays" -> findScreenMirroringDisplays(outcome)

OutcomesOf(fn, script) ==
  IF fn \in ToggleFns THEN ToggleOutcomes(script) ELSE DiscoveryOutcomes

\* A domain function that sends the script again when the bridge call rejects.
BridgeAnswersRetries ==
  /\ call.pc = "bridge"
  /\ \E outcome \in OutcomesOf(call.fn, call.script) :
       IF outcome = Reject /\ Len(call.sent) < 2
       THEN call' = [call EXCEPT !.sent = Append(@, call.script)]
       ELSE call' = [call EXCEPT !.pc = "settled", !.outcome = outcome,
                                 !.promise = Settle(call.fn, outcome)]
  /\ UNCHANGED <<luaVars, uiVars>>

BridgeAnswers ==
  /\ call.pc = "bridge"
  /\ \E outcome \in OutcomesOf(call.fn, call.script) :
       call' = [call EXCEPT !.pc = "settled", !.outcome = outcome,
                            !.promise = Settle(call.fn, outcome)]
  /\ UNCHANGED <<luaVars, uiVars>>

CallerResumes ==
  /\ call.pc = "settled"
  /\ call' = Idle
  /\ UNCHANGED <<luaVars, uiVars>>

LuaOff == [pc |-> "off"]
WorldOff == [app |-> FALSE]

\* The parts of the state a specification does not use stay at rest.
UIAtRest ==
  /\ screenList = <<>> /\ isLoading = FALSE /\ launchContext = <<>>
  /\ effectDue = FALSE /\ autoToggled = "never" /\ inflight = EmptyBag /\ completed = Idle
LuaAtRest == lua = LuaOff /\ world = WorldOff
DomainAtRest == call = Idle

InitDomain ==
  /\ call = Idle
  /\ LuaAtRest
  /\ UIAtRest

NextDomain ==
  \/ CallToggleDisplay
  \/ CallToggleDisplayMirroring
  \/ CallFindDisplays
  \/ CallFindScreenMirroringDisplays
  \/ BridgeAnswers
  \/ CallerResumes

SpecDomain == InitDomain /\ [][NextDomain]_vars

----------------------------------------------------------------------------
(* Claims about the domain functions (SpecDomain) *)

GenericFailure ==
  [success |-> JBool(FALSE), message |-> Undefined, error |-> JStr(GenericFailureText)]

\* C1: toggleDisplay and toggleDisplayMirroring never reject: whatever the
\* identifier and the bridge's outcome the promise is fulfilled, and when the
\* bridge call rejected it is fulfilled with exactly
\* {success: false, error: "Failed to interact with display"}.
C1_ToggleNeverRejects ==
  (call.pc = "settled" /\ call.fn \in ToggleFns) =>
    /\ call.promise.state = "fulfilled"
    /\ DOMAIN call.promise.value = {"success", "message", "error"}
    /\ call.outcome = Reject => call.promise.value = GenericFailure

C1_Witness ==
  /\ call.pc = "settled" /\ call.fn = "toggleDisplay"
  /\ call.outcome = Reject
  /\ call.promise = Fulfilled(GenericFailure)

\* C2: findDisplays and findScreenMirroringDisplays never reject: when the
\* bridge call rejects or the text is not JSON the promise is fulfilled with
\* the empty list.
C2_FindNeverRejects ==
  (call.pc = "settled" /\ call.fn \in FindFns) =>
    /\ call.promise.state = "fulfilled"
    /\ (call.outcome = Reject \/ call.outcome = Text(NotJson)) =>
         call.promise.value = <<>>

C2_Witness ==
  /\ call.pc = "settled" /\ call.fn = "findDisplays"
  /\ call.outcome = Text(NotJson)
  /\ call.promise = Fulfilled(<<>>)

\* The envelope of a settled discovery call whose answer was a JSON object
\* with a boolean found.
IsEnvelope(c) ==
  /\ c.pc = "settled" /\ c.fn \in FindFns
  /\ c.outcome.kind = "text" /\ c.outcome.text.json
  /\ c.outcome.text.value.t = "object"
  /\ Prop(c.outcome.text.value, "found").t = "boolean"

SameDisplays(result, displays) ==
  /\ Len(result) = Len(displays)
  /\ \A i \in 1..Len(displays) :
       /\ result[i].title = displays[i].title
       /\ result[i].role = displays[i].role

\* C3 as claimed: whenever found is true the result is the envelope's displays
\* array, and whenever found is false it is the empty list.
C3_FoundGivesDisplays ==
  IsEnvelope(call) =>
    LET env == call.outcome.text.value
    IN IF Prop(env, "found").v
       THEN /\ Prop(env, "displays").t = "array"
            /\ call.promise.state = "fulfilled"
            /\ SameDisplays(call.promise.value, Prop(env, "displays").v)
       ELSE call.promise = Fulfilled(<<>>)

\* C3 amended: when found is true and the envelope has a displays array the
\* result is that array (same length, same order, each element equal in title
\* and role); in every other case (found false, displays absent or not an
\* array) the result is the empty list.
C3_FoundAndArrayGivesDisplays ==
  IsEnvelope(call) =>
    LET env == call.outcome.text.value
    IN /\ call.promise.state = "fulfilled"
       /\ IF Prop(env, "found").v /\ Prop(env, "displays").t = "array"
          THEN SameDisplays(call.promise.value, Prop(env, "displays").v)
          ELSE call.promise.value = <<>>

C3_Witness ==
  /\ IsEnvelope(call) /\ call.fn = "findDisplays"
  /\ call.outcome = Text(JsonText(SuccessEnvelope(<<Available(<<"tv">>), Active(<<"office">>)>>)))
  /\ call.promise.value = <<Available(<<"tv">>), Active(<<"office">>)>>

\* C4 as claimed: the title the generated toggle script searches for never
\* carries the active marker.
C4_ScriptTargetHasNoMarker ==
  (call.pc # "idle" /\ call.fn \in ToggleFns /\ ScriptTarget(call.script).ok) =>
    ~Includes(ScriptTarget(call.script).value, ActiveMarker)

\* C6 as claimed: the identifier is embedded escaped, at exactly one place of
\* the script, so that the script searches for the identifier itself.
C6_IdentifierEscapedOnce ==
  (call.pc # "idle" /\ call.fn \in ToggleFns) =>
    /\ Occurrences(call.script, LuaEscape(call.arg)) = 1
    /\ ScriptTarget(call.script) = [ok |-> TRUE, value |-> call.arg]

----------------------------------------------------------------------------
(* Accessibility trees *)

\* attributeValue returned nil
NilText == <<"<nil>">>

Element(title, role, description, children) ==
  [title |-> title, role |-> role, description |-> description, children |-> children]

Group(children) == Element(NilText, "AXGroup", NilText, children)
MenuItem == Element(NilText, "AXMenuBarItem", ScreenMirroring, <<>>)
CheckBox(name) == Element(NilText, "AXCheckBox", name, <<>>)
Disclosure(name) == Element(NilText, "AXDisclosureTriangle", name, <<>>)
Button(title) == Element(title, "AXButton", NilText, <<>>)

\* leaf below n nested groups: the leaf is at depth n of the chain
RECURSIVE Chain(_, _)
Chain(n, leaf) == IF n = 0 THEN leaf ELSE Group(<<Chain(n - 1, leaf)>>)

\* Every node of a tree with its path from the root (the child indices), in
\* pre-order; a node's depth is the length of its path.
RECURSIVE NodesOf(_, _)
NodesOf(element, path) ==
  LET RECURSIVE below(_)
      below(i) ==
        IF i > Len(element.children) THEN <<>>
        ELSE NodesOf(element.children[i], Append(path, i)) \o below(i + 1)
  IN <<[path |-> path, element |-> element]>> \o below(1)

----------------------------------------------------------------------------
(* The Lua functions of the generated scripts.  Each returns, next to its  *)
(* result, the paths of the elements whose attributes it read, in order.   *)

SearchDepthLimit == 10

\* A guard that lets one more level through.
DepthExceededOffByOne(depth) == depth > SearchDepthLimit + 1

\* `depth > 10` of `if not element or depth > 10 then return nil end`
DepthExceeded(depth) == depth > SearchDepthLimit

NotFound == [found |-> FALSE, visited |-> <<>>]

\* searchByDescription(element, depth): the first element in pre-order whose
\* AXDescription is "Screen Mirroring"
RECURSIVE searchByDescription(_, _, _)
searchByDescription(element, depth, path) ==
  IF DepthExceeded(depth) THEN NotFound
  ELSE IF element.description # NilText /\ element.description = ScreenMirroring
    THEN [found |-> TRUE, path |-> path, element |-> element, visited |-> <<path>>]
  ELSE
    LET RECURSIVE children(_)
        children(i) ==
          IF i > Len(element.children) THEN NotFound
          ELSE LET result == searchByDescription(element.children[i], depth + 1,
                                                 Append(path, i))
               IN IF result.found THEN result
                  ELSE LET rest == children(i + 1)
                       IN [rest EXCEPT !.visited = result.visited \o @]
        r == children(1)
    IN [r EXCEPT !.visited = <<path>> \o @]

\* searchByTitle(element, depth, targetTitle): the first element in pre-order
\* whose AXTitle or AXDescription equals targetTitle
RECURSIVE searchByTitle(_, _, _, _)
searchByTitle(element, depth, targetTitle, path) ==
  IF DepthExceeded(depth) THEN NotFound
  ELSE IF \/ (element.title # NilText /\ element.title = targetTitle)
          \/ (element.description # NilText /\ element.description = targetTitle)
    THEN [found |-> TRUE, path |-> path, element |-> element, visited |-> <<path>>]
  ELSE
    LET RECURSIVE children(_)
        children(i) ==
          IF i > Len(element.children) THEN NotFound
          ELSE LET result == searchByTitle(element.children[i], depth + 1,
                                           targetTitle, Append(path, i))
               IN IF result.found THEN result
                  ELSE LET rest == children(i + 1)
                       IN [rest EXCEPT !.visited = result.visited \o @]
        r == children(1)
    IN [r EXCEPT !.visited = <<path>> \o @]

\* Entries that leave the marker off a disclosure element's title.
OwnDisplaysUnmarked(element) ==
  (IF element.role = "AXButton" /\ element.title # NilText /\ Includes(element.title, Mirror)
   THEN <<[title |-> element.title, role |-> element.role]>> ELSE <<>>)
  \o (IF element.role \in {"AXCheckBox", "AXDisclosureTriangle"} /\ element.description # NilText
      THEN <<[title |-> element.description, role |-> element.role]>> ELSE <<>>)

\* The entries findMirrorDisplays inserts for the element itself.
OwnDisplays(element) ==
  (IF element.role = "AXButton" /\ element.title # NilText /\ Includes(element.title, Mirror)
   THEN <<[title |-> element.title, role |-> element.role]>> ELSE <<>>)
  \o (IF element.role = "AXCheckBox" /\ element.description # NilText
      THEN <<[title |-> element.description, role |-> element.role]>> ELSE <<>>)
  \o (IF element.role = "AXDisclosureTriangle" /\ element.description # NilText
      THEN <<[title |-> element.description \o ActiveMarker, role |-> element.role]>>
      ELSE <<>>)

\* findMirrorDisplays(element, depth): the display entries of the subtree
RECURSIVE findMirrorDisplays(_, _, _)
findMirrorDisplays(element, depth, path) ==
  IF DepthExceeded(depth) THEN [displays |-> <<>>, visited |-> <<>>]
  ELSE
    LET RECURSIVE children(_)
        children(i) ==
          IF i > Len(element.children) THEN [displays |-> <<>>, visited |-> <<>>]
          ELSE LET childDisplays == findMirrorDisplays(element.children[i], depth + 1,
                                                       Append(path, i))
                   rest == children(i + 1)
               IN [displays |-> childDisplays.displays \o rest.displays,
                   visited |-> childDisplays.visited \o rest.visited]
        below == children(1)
    IN [displays |-> OwnDisplays(element) \o below.displays,
        visited |-> <<path>> \o below.visited]

\* A window's title is the dialog's title
TitleMatches(window) ==
  /\ window.title # NilText
  /\ (window.title = ControlCenter \/ Includes(window.title, ScreenMirroring))

\* A loop body that looks at the role only.
AcceptsWindowByRoleOnly(window) == window.role = "AXWindow"

\* The two tests of the loop body of findControlCenterDialog
AcceptsWindow(window) == TitleMatches(window) \/ window.role = "AXWindow"

\* findControlCenterDialog(axApp): windows is the AXWindows attribute
\* ([present |-> FALSE] when it is nil); the index of the window returned, 0
\* for nil.
findControlCenterDialog(windows) ==
  IF ~windows.present THEN 0
  ELSE IF \E i \in 1..Len(windows.list) : AcceptsWindow(windows.list[i])
    THEN CHOOSE i \in 1..Len(windows.list) :
           /\ AcceptsWindow(windows.list[i])
           /\ \A j \in 1..(i - 1) : ~AcceptsWindow(windows.list[j])
  ELSE 0

----------------------------------------------------------------------------
(* The four scripts' failure returns, by the stage whose lookup failed *)

Stages == {"app", "ax", "button", "dialog", "target"}
DiscoveryScripts == {"findDisplays.getCode", "generateFindDisplaysLua"}
ToggleScripts == {"toggleDisplay.getCode", "generateToggleDisplayLua"}
Scripts == DiscoveryScripts \cup ToggleScripts

\* The lookups a script makes: a discovery script never looks for a target.
StagesOf(script) == IF script \in ToggleScripts THEN Stages ELSE Stages \ {"target"}

\* A failure return that names the error only.
ToggleFailureWithoutSuccess(e) == JObject([error |-> JStr(e)])

ToggleFailure(e) == JObject([success |-> JBool(FALSE), error |-> JStr(e)])

\* findDisplays.ts getCode / main: one early return per failed lookup
findDisplaysGetCodeFailure(stage) ==
  CASE stage = "app" -> FailureEnvelope(<<"Control Center application not found">>)
    [] stage = "ax" ->
         FailureEnvelope(<<"Could not access Control Center accessibility element">>)
    [] stage = "button" ->
         FailureEnvelope(<<"Screen Mirroring button not found in Control Center">>)
    [] stage = "dialog" -> DialogNotFoundEnvelope

\* generateFindDisplaysLua: the three outer else branches only log and fall
\* through to the script's last return
generateFindDisplaysLuaFailure(stage) ==
  CASE stage \in {"app", "ax", "button"} ->
         FailureEnvelope(<<"Screen Mirroring menu not found">>)
    [] stage = "dialog" -> DialogNotFoundEnvelope

\* A main whose dialog stage reuses the message of the button stage.
toggleGetCodeFailureReused(stage) ==
  CASE stage \in {"app", "ax"} -> ToggleFailure(<<"Could not interact with display">>)
    [] stage \in {"button", "dialog"} ->
         ToggleFailure(<<"Screen Mirroring button not found. Please ensure Control Center is accessible.">>)
    [] stage = "target" -> ToggleFailure(<<"Display element not found">>)

\* toggleDisplay.ts getCode / main: one early return per failed lookup
toggleGetCodeFailure(stage) ==
  CASE stage \in {"app", "ax"} -> ToggleFailure(<<"Could not interact with display">>)
    [] stage = "button" ->
         ToggleFailure(<<"Screen Mirroring button not found. Please ensure Control Center is accessible.">>)
    [] stage = "dialog" -> ToggleFailure(<<"Control Center dialog not found after opening">>)
    [] stage = "target" -> ToggleFailure(<<"Display element not found">>)

\* A main whose missing element falls through to the last return as well.
generateToggleDisplayLuaFallsThrough(stage) ==
  CASE stage \in {"app", "ax", "button"} -> ToggleFailure(<<"Could not interact with display">>)
    [] stage = "dialog" -> ToggleFailure(<<"Control Center dialog not found after opening">>)
    [] stage = "target" -> ToggleFailure(<<"Display element not found">>)

\* generateToggleDisplayLua: app and ax fall through to the last return
generateToggleDisplayLuaFailure(stage) ==
  CASE stage \in {"app", "ax"} -> ToggleFailure(<<"Could not interact with display">>)
    [] stage = "button" ->
         ToggleFailure(<<"Screen Mirroring button not found. Please ensure Control Center is accessible.">>)
    [] stage = "dialog" -> ToggleFailure(<<"Control Center dialog not found after opening">>)
    [] stage = "target" -> ToggleFailure(<<"Display element not found">>)

FailureOf(script, stage) ==
  CASE script = "findDisplays.getCode" -> findDisplaysGetCodeFailure(stage)
    [] script = "generateFindDisplaysLua" -> generateFindDisplaysLuaFailure(stage)
    [] script = "toggleDisplay.getCode" -> toggleGetCodeFailure(stage)
    [] script = "generateToggleDisplayLua" -> generateToggleDisplayLuaFailure(stage)

----------------------------------------------------------------------------
(* Worlds: what the automation host finds when a script runs *)

Windows(list) == [present |-> TRUE, list |-> list]
NoWindows == [present |-> FALSE, list |-> <<>>]

Window(title, role, children) == Element(title, role, NilText, children)

\* The content of an opened Screen Mirroring dialog
Panel ==
  <<Group(<<CheckBox(<<"tv">>), Disclosure(<<"office">>)>>),
    Button(<<"Mirror", " Built-in Display">>),
    Group(<<Group(<<CheckBox(<<"tv">>)>>)>>)>>

DialogContents ==
  {<<>>, Panel}
  \cup {<<Chain(d - 1, CheckBox(<<"tv">>))>> : d \in (SearchDepthLimit - 1)..MaxTreeDepth}
  \cup {<<Chain(d - 1, Disclosure(<<"tv">>))>> : d \in {MaxTreeDepth}}
  \cup {<<Chain(MaxTreeDepth - 1, CheckBox(<<"office">>)), CheckBox(<<"tv">>)>>}

Generic(children) == Window(NilText, "AXWindow", children)
Titled(children) == Window(ControlCenter, "AXSystemDialog", children)
Panelled(children) == Window(<<"Screen ", "Mirror", "ing", " Options">>, "AXSystemDialog", children)
Untitled == Window(NilText, "AXSystemDialog", <<>>)
OtherApp == Window(<<"Finder">>, "AXSheet", <<>>)

WindowLists ==
  {NoWindows, Windows(<<>>), Windows(<<Untitled, OtherApp>>)}
  \cup {Windows(<<Generic(c)>>) : c \in DialogContents}
  \cup {Windows(<<Untitled, Titled(Panel)>>),
        Windows(<<OtherApp, Panelled(Panel), Generic(<<>>)>>),
        Windows(<<Generic(<<>>), Titled(Panel)>>),
        Windows(<<Generic(<<>>), Panelled(Panel)>>),
        Windows(<<Titled(Panel), Generic(<<>>)>>)}

\* The application's element tree: the menu bar item at some depth, absent,
\* or behind a branch too deep to search
Roots ==
  {Chain(d, MenuItem) : d \in 0..MaxTreeDepth}
  \cup {Group(<<>>), Group(<<Group(<<Button(<<"Wi-Fi">>)>>), CheckBox(<<"tv">>)>>)}
  \cup {Group(<<Chain(MaxTreeDepth - 1, MenuItem), MenuItem>>),
        Group(<<Group(<<MenuItem>>), MenuItem>>)}

DefaultRoot == Group(<<Group(<<MenuItem>>), MenuItem>>)

Worlds ==
  {[app |-> FALSE, ax |-> FALSE, root |-> DefaultRoot, windows |-> NoWindows],
   [app |-> TRUE, ax |-> FALSE, root |-> DefaultRoot, windows |-> NoWindows]}
  \cup {[app |-> TRUE, ax |-> TRUE, root |-> r, windows |-> Windows(<<Generic(Panel)>>)] :
          r \in Roots}
  \cup {[app |-> TRUE, ax |-> TRUE, root |-> DefaultRoot, windows |-> w] :
          w \in WindowLists}

----------------------------------------------------------------------------
(* SpecLua: one run of a generated script, statement by statement *)

DialogWaitMicros == 500000
ActionWaitMicros == 300000

Press(tree, path) == [kind |-> "AXPress", tree |-> tree, path |-> path]
Sleep(us) == [kind |-> "usleep", us |-> us]
KeyStroke(key) == [kind |-> "keyStroke", key |-> key]

\* Titles a toggle script is generated for
LuaTargets ==
  Names \cup {<<"tv">> \o ActiveMarker, <<"Mirror", " Built-in Display">>, <<"a", DQ>>}

ScriptText(script, displayTitle) ==
  CASE script = "toggleDisplay.getCode" -> getCode(displayTitle)
    [] script = "generateToggleDisplayLua" -> generateToggleDisplayLua(displayTitle)
    [] OTHER -> <<script>>

\* What the run before this one was, did and printed
NoRun == [script |-> "none", arg |-> <<>>, log |-> <<>>, result |-> Undefined]

LuaIdle ==
  [pc |-> "idle", script |-> "none", arg |-> <<>>, target |-> <<>>, log |-> <<>>,
   searches |-> <<>>,
   button |-> <<>>, dialog |-> 0, element |-> <<>>, stage |-> "none", result |-> Undefined,
   previous |-> NoRun]

\* The host loads the script; a script whose literals no longer end where the
\* template ends them is not run.
LuaLoad ==
  /\ lua.pc = "idle"
  /\ \E script \in Scripts, T \in LuaTargets :
       /\ script \in DiscoveryScripts => T = <<"tv">>
       /\ script \in ToggleScripts => ScriptIntact(ScriptText(script, T))
       /\ lua' = [LuaIdle EXCEPT
                    !.pc = "app", !.script = script, !.previous = lua.previous,
                    !.arg = IF script \in ToggleScripts THEN T ELSE <<>>,
                    !.target = IF script \in ToggleScripts
                               THEN ScriptTarget(ScriptText(script, T)).value
                               ELSE <<>>]
  /\ UNCHANGED <<world, domVars, uiVars>>

Fail(stage) ==
  lua' = [lua EXCEPT !.pc = "done", !.stage = stage,
                     !.result = FailureOf(lua.script, stage)]

\* application.applicationsForBundleID("com.apple.controlcenter")[1]
LuaCheckApp ==
  /\ lua.pc = "app"
  /\ IF world.app THEN lua' = [lua EXCEPT !.pc = "ax"] ELSE Fail("app")
  /\ UNCHANGED <<world, domVars, uiVars>>

\* axuielement.applicationElement(controlCenterApp)
LuaCheckAx ==
  /\ lua.pc = "ax"
  /\ IF world.ax THEN lua' = [lua EXCEPT !.pc = "button"] ELSE Fail("ax")
  /\ UNCHANGED <<world, domVars, uiVars>>

Searched(fn, tree, found, visited) ==
  [fn |-> fn, tree |-> tree, found |-> found, visited |-> visited]

\* A main that presses Escape before it reports the missing element.
LuaSearchButtonEscapes ==
  /\ lua.pc = "button"
  /\ LET r == searchByDescription(world.root, 0, <<>>)
         noted == Append(lua.searches,
                         Searched("searchByDescription", "root", r.found, r.visited))
     IN IF r.found
        THEN lua' = [lua EXCEPT !.pc = "press", !.button = r.path, !.searches = noted]
        ELSE lua' = [lua EXCEPT !.pc = "done", !.stage = "button", !.searches = noted,
                                !.log = Append(@, KeyStroke("escape")),
                                !.result = FailureOf(lua.script, "button")]
  /\ UNCHANGED <<world, domVars, uiVars>>

\* searchByDescription(axApp, 0)
LuaSearchButton ==
  /\ lua.pc = "button"
  /\ LET r == searchByDescription(world.root, 0, <<>>)
         noted == Append(lua.searches,
                         Searched("searchByDescription", "root", r.found, r.visited))
     IN IF r.found
        THEN lua' = [lua EXCEPT !.pc = "press", !.button = r.path, !.searches = noted]
        ELSE lua' = [lua EXCEPT !.pc = "done", !.stage = "button", !.searches = noted,
                                !.result = FailureOf(lua.script, "button")]
  /\ UNCHANGED <<world, domVars, uiVars>>

\* screenMirroringElement:performAction("AXPress"); hs.timer.usleep(500000)
LuaPressButton ==
  /\ lua.pc = "press"
  /\ lua' = [lua EXCEPT !.pc = "dialog",
                        !.log = @ \o <<Press("root", lua.button), Sleep(DialogWaitMicros)>>]
  /\ UNCHANGED <<world, domVars, uiVars>>

\* findControlCenterDialog(axApp)
LuaFindDialog ==
  /\ lua.pc = "dialog"
  /\ LET i == findControlCenterDialog(world.windows)
     IN IF i = 0 THEN Fail("dialog")
        ELSE lua' = [lua EXCEPT !.dialog = i,
                       !.pc = IF lua.script \in ToggleScripts THEN "target" ELSE "collect"]
  /\ UNCHANGED <<world, domVars, uiVars>>

DialogWindow == world.windows.list[lua.dialog]

\* searchByTitle(dialogWindow, 0, "${displayTitle}")
LuaSearchTarget ==
  /\ lua.pc = "target"
  /\ LET r == searchByTitle(DialogWindow, 0, lua.target, <<>>)
         noted == Append(lua.searches,
                         Searched("searchByTitle", "dialog", r.found, r.visited))
     IN IF r.found
        THEN lua' = [lua EXCEPT !.pc = "pressTarget", !.element = r.path,
                                !.searches = noted]
        ELSE lua' = [lua EXCEPT !.pc = "done", !.stage = "target", !.searches = noted,
                                !.result = FailureOf(lua.script, "target")]
  /\ UNCHANGED <<world, domVars, uiVars>>

\* targetElement:performAction("AXPress"); hs.timer.usleep(300000)
LuaPressTarget ==
  /\ lua.pc = "pressTarget"
  /\ lua' = [lua EXCEPT !.pc = "escape",
                        !.log = @ \o <<Press("dialog", lua.element), Sleep(ActionWaitMicros)>>]
  /\ UNCHANGED <<world, domVars, uiVars>>

\* A main that returns without the key stroke.
LuaKeyStrokeSkipped ==
  /\ lua.pc = "escape"
  /\ lua' = [lua EXCEPT !.pc = "return"]
  /\ UNCHANGED <<world, domVars, uiVars>>

\* hs.eventtap.keyStroke({}, "escape")
LuaKeyStroke ==
  /\ lua.pc = "escape"
  /\ lua' = [lua EXCEPT !.pc = "return", !.log = Append(@, KeyStroke("escape"))]
  /\ UNCHANGED <<world, domVars, uiVars>>

\* return hs.json.encode({success = true, message = "Clicked on " .. "${displayTitle}"})
LuaReturnSuccess ==
  /\ lua.pc = "return"
  /\ lua' = [lua EXCEPT !.pc = "done",
               !.result = JObject([success |-> JBool(TRUE),
                                   message |-> JStr(<<"Clicked on ">> \o lua.target)])]
  /\ UNCHANGED <<world, domVars, uiVars>>

\* A main that finds nothing when a discovery script ran just before.
LuaCollectOnce ==
  /\ lua.pc = "collect"
  /\ LET r == findMirrorDisplays(DialogWindow, 0, <<>>)
     IN lua' = [lua EXCEPT !.pc = "done",
                  !.searches = Append(@, Searched("findMirrorDisplays", "dialog",
                                                  r.displays # <<>>, r.visited)),
                  !.result = IF lua.previous.script \in DiscoveryScripts
                             THEN SuccessEnvelope(<<>>)
                             ELSE SuccessEnvelope(r.displays)]
  /\ UNCHANGED <<world, domVars, uiVars>>

\* findMirrorDisplays(dialogWindow, 0), the displayTitles loop and the
\* success envelope
LuaCollect ==
  /\ lua.pc = "collect"
  /\ LET r == findMirrorDisplays(DialogWindow, 0, <<>>)
     IN lua' = [lua EXCEPT !.pc = "done",
                  !.searches = Append(@, Searched("findMirrorDisplays", "dialog",
                                                  r.displays # <<>>, r.visited)),
                  !.result = SuccessEnvelope(r.displays)]
  /\ UNCHANGED <<world, domVars, uiVars>>

\* The host prints the result; the next script may be loaded.
LuaExit ==
  /\ lua.pc = "done"
  /\ lua' = [LuaIdle EXCEPT !.previous = [script |-> lua.script, arg |-> lua.arg,
                                          log |-> lua.log, result |-> lua.result]]
  /\ UNCHANGED <<world, domVars, uiVars>>

InitLua ==
  /\ lua = LuaIdle
  /\ world \in Worlds
  /\ DomainAtRest
  /\ UIAtRest

NextLua ==
  \/ LuaLoad
  \/ LuaCheckApp
  \/ LuaCheckAx
  \/ LuaSearchButton
  \/ LuaPressButton
  \/ LuaFindDialog
  \/ LuaSearchTarget
  \/ LuaPressTarget
  \/ LuaKeyStroke
  \/ LuaReturnSuccess
  \/ LuaCollect
  \/ LuaExit

SpecLua == InitLua /\ [][NextLua]_vars

----------------------------------------------------------------------------
(* Claims about the scripts (SpecLua) *)

Failed == lua.pc = "done" /\ lua.stage # "none"

ErrorOf(json) == Prop(json, "error")

\* A failure result is data: an object with a non-empty error string, for a
\* toggle script with success = false, for a discovery script without displays.
StructuredFailure(script, json) ==
  /\ json.t = "object"
  /\ ErrorOf(json).t = "string" /\ ErrorOf(json).v # <<>>
  /\ script \in ToggleScripts => Prop(json, "success") = JBool(FALSE)
  /\ script \in DiscoveryScripts =>
       Prop(json, "found").t = "boolean" /\ "displays" \notin DOMAIN json.v

\* C7 as claimed: a run that failed at a lookup stage returns a structured
\* failure, and no other failure stage of the same script returns its error
\* string.
C7_FailureStagesDistinct ==
  Failed =>
    /\ StructuredFailure(lua.script, lua.result)
    /\ \A other \in StagesOf(lua.script) \ {lua.stage} :
         ErrorOf(FailureOf(lua.script, other)) # ErrorOf(lua.result)

\* The stages that share one error string: a toggle script answers "Could not
\* interact with display" for the application and for its accessibility root;
\* generateFindDisplaysLua answers "Screen Mirroring menu not found" for the
\* application, the accessibility root and the Screen Mirroring element.
SharesMessage(script, a, b) ==
  \/ script \in ToggleScripts /\ {a, b} \subseteq {"app", "ax"}
  \/ script = "generateFindDisplaysLua" /\ {a, b} \subseteq {"app", "ax", "button"}

\* C7 amended: a run that failed at a lookup stage returns a structured
\* failure; two different failure stages of a script return the same error
\* string exactly when they are stages that share one message (see
\* SharesMessage), so the stages of findDisplays.ts getCode are all distinct.
C7_FailureStagesDistinctButShared ==
  Failed =>
    /\ StructuredFailure(lua.script, lua.result)
    /\ \A other \in StagesOf(lua.script) \ {lua.stage} :
         (ErrorOf(FailureOf(lua.script, other)) = ErrorOf(lua.result))
           <=> SharesMessage(lua.script, lua.stage, other)

C7_Witness ==
  /\ Failed /\ lua.script = "toggleDisplay.getCode" /\ lua.stage = "dialog"
  /\ lua.log # <<>>
  /\ ErrorOf(lua.result) = JStr(<<"Control Center dialog not found after opening">>)

\* The tree a noted search ran on
TreeOf(search) == IF search.tree = "root" THEN world.root ELSE DialogWindow

\* Whether an element is what the search function looks for
Sought(fn, element) ==
  CASE fn = "searchByDescription" -> element.description = ScreenMirroring
    [] fn = "searchByTitle" ->
         element.title = lua.target \/ element.description = lua.target
    [] fn = "findMirrorDisplays" -> OwnDisplays(element) # <<>>

SoughtDepths(search) ==
  LET nodes == NodesOf(TreeOf(search), <<>>)
  IN {Len(nodes[i].path) : i \in {j \in 1..Len(nodes) : Sought(search.fn, nodes[j].element)}}

\* C8: no search reads a node at depth 11 or beyond, and a search on a tree
\* whose matching nodes are all at depth 11 or beyond reports nothing found.
C8_SearchDepthBounded ==
  \A k \in 1..Len(lua.searches) :
    LET search == lua.searches[k]
    IN /\ \A v \in 1..Len(search.visited) : Len(search.visited[v]) < 11
       /\ (SoughtDepths(search) # {} /\ \A d \in SoughtDepths(search) : d >= 11)
            => ~search.found

\* A search went down to depth 10 of a tree whose only match is at depth 11.
C8_Witness ==
  \E k \in 1..Len(lua.searches) :
    LET search == lua.searches[k]
    IN /\ SoughtDepths(search) = {11}
       /\ \E v \in 1..Len(search.visited) : Len(search.visited[v]) = 10
       /\ ~search.found

DialogChosen == lua.pc \in {"target", "collect"} \/ (Failed /\ lua.stage = "dialog")

\* C9 as claimed: when some window matches by title the window returned
\* matches by title, wherever it is in the list.
C9_TitleMatchPreferred ==
  (DialogChosen /\ world.windows.present
     /\ \E i \in 1..Len(world.windows.list) : TitleMatches(world.windows.list[i]))
    => lua.dialog > 0 /\ TitleMatches(world.windows.list[lua.dialog])

\* C9 amended: findControlCenterDialog returns the first window of the list
\* that matches by title or has the role AXWindow (nil when there is none): a
\* title-matching window is returned only if no AXWindow precedes it, and a
\* generic AXWindow is returned when no title match precedes it.
C9_FirstAcceptedWindow ==
  DialogChosen =>
    LET list == world.windows.list
        accepted == {i \in 1..Len(list) :
                       world.windows.present
                       /\ (list[i].role = "AXWindow"
                           \/ list[i].title = ControlCenter
                           \/ Includes(list[i].title, ScreenMirroring))}
    IN IF accepted = {} THEN lua.dialog = 0 /\ lua.stage = "dialog"
       ELSE lua.dialog \in accepted /\ \A j \in accepted : lua.dialog <= j

C9_Witness ==
  /\ lua.pc \in {"target", "collect"}
  /\ world.windows = Windows(<<Untitled, Titled(Panel)>>)
  /\ lua.dialog = 2

----------------------------------------------------------------------------
(* SpecUI: the Command component *)

NoName == <<>>

\* Requests are told apart by what they carry only: two alike are two copies.
InFlight == BagToSet(inflight)
MayStart == BagCardinality(inflight) < MaxInFlight
Add(request) == inflight (+) SetToBag({request})
Remove(request) == inflight (-) SetToBag({request})

\* display.title.replace(" (Currently Mirroring)", "")
StripMarker(title) == Replace(title, ActiveMarker, <<>>)

\* screenList.find((display) => display.title.replace(...) === displayName):
\* the index of the first such display, 0 when there is none
FindDisplay(list, displayName) ==
  IF \E i \in 1..Len(list) : StripMarker(list[i].title) = displayName
  THEN CHOOSE i \in 1..Len(list) :
         /\ StripMarker(list[i].title) = displayName
         /\ \A j \in 1..(i - 1) : StripMarker(list[j].title) # displayName
  ELSE 0

Request(handler, arg, shown, script) ==
  [pc |-> "bridge", handler |-> handler, arg |-> arg, shown |-> shown,
   script |-> script, promise |-> Pending]

Done(handler, shown, toast, displays, before) ==
  [pc |-> "done", handler |-> handler, shown |-> shown, toast |-> toast,
   displays |-> displays, before |-> before]

\* The useEffect of the quicklink auto-toggle, up to its await.
AutoToggleEffect ==
  /\ effectDue
  /\ IF launchContext = NoName
     THEN UNCHANGED <<inflight, completed, autoToggled>>
     ELSE LET i == FindDisplay(screenList, launchContext)
          IN IF i > 0
             THEN /\ MayStart
                  /\ inflight' = Add(Request("autoToggle", screenList[i].title,
                                            screenList[i].title,
                                            generateToggleDisplayLua(screenList[i].title)))
                  /\ autoToggled' = IF autoToggled = "never" THEN "once" ELSE "again"
                  /\ UNCHANGED completed
             ELSE /\ completed' = Done("autoToggle", launchContext, "Display Not Found",
                                       <<>>, <<>>)
                  /\ UNCHANGED <<inflight, autoToggled>>
  /\ effectDue' = FALSE
  /\ UNCHANGED <<screenList, isLoading, launchContext, domVars, luaVars>>

\* The Start/Stop Mirroring action of list item i: openDisplayMenuItem(displayTitle)
\* up to its await.
ItemAction ==
  /\ MayStart
  /\ \E i \in 1..Len(screenList) :
       LET displayTitle == StripMarker(screenList[i].title)
       IN inflight' = Add(Request("openDisplayMenuItem", displayTitle, screenList[i].title,
                                  generateToggleDisplayLua(displayTitle)))
  /\ isLoading' = TRUE
  /\ UNCHANGED <<screenList, launchContext, effectDue, autoToggled, completed, domVars, luaVars>>

\* The Refresh Displays action: findScreenMirroringMenuItem up to its await.
RefreshAction ==
  /\ MayStart
  /\ inflight' = Add(Request("findScreenMirroringMenuItem", <<>>, <<>>,
                             <<"generateFindDisplaysLua()">>))
  /\ isLoading' = TRUE
  /\ UNCHANGED <<screenList, launchContext, effectDue, autoToggled, completed, domVars, luaVars>>

\* Display lists the component is run against
UILists ==
  { <<>>,
    <<Active(<<"tv">>)>>,
    <<Available(<<"tv">>), Active(<<"office">>)>> }

\* Answers of the bridge the component is run against.
UIOutcomes(request) ==
  IF request.handler = "findScreenMirroringMenuItem"
  THEN {Reject, Text(JsonText(DialogNotFoundEnvelope))}
       \cup {Text(JsonText(SuccessEnvelope(l))) : l \in UILists}
  ELSE {Reject,
        Text(JsonText(JObject([message |-> JStr(<<"ok">>)]))),
        Text(JsonText(ToggleFailure(<<"Display element not found">>))),
        Text(JsonText(JObject([success |-> JBool(TRUE),
               message |-> JStr(<<"Clicked on ">> \o ScriptTarget(request.script).value)])))}

\* callHammerspoon settles and the domain function with it.
BridgeAnswersUI ==
  /\ \E request \in InFlight :
       /\ request.pc = "bridge"
       /\ \E outcome \in UIOutcomes(request) :
            inflight' = Remove(request) (+) SetToBag({[request EXCEPT
              !.pc = "settled",
              !.promise = IF request.handler = "findScreenMirroringMenuItem"
                          THEN findScreenMirroringDisplays(outcome)
                          ELSE toggleDisplayMirroring(outcome)]})
  /\ UNCHANGED <<screenList, isLoading, launchContext, effectDue, autoToggled, completed,
                 domVars, luaVars>>

\* A handler that writes every result to the cache.
CacheAfterAlways(displays, cache) == displays

\* A handler that appends the result to the cached list.
CacheAfterMerges(displays, cache) == IF Len(displays) > 0 THEN cache \o displays ELSE cache

\* if (displays.length > 0) setScreenList(displays)
CacheAfter(displays, cache) == IF Len(displays) > 0 THEN displays ELSE cache

\* openDisplayMenuItem from its await to the end of finally.
ToggleToast(request) ==
  IF request.promise.state = "rejected" THEN "Error"
  ELSE IF Truthy(request.promise.value.success)
    THEN IF Includes(request.arg, MarkerText)
         THEN "Screen Mirroring Stopped" ELSE "Screen Mirroring Started"
  ELSE "Failed to Toggle Display"

\* A handler that, when the toggle succeeded, moves the marker of the cached
\* entry it was started from.
ResumeOpenDisplayMenuItemUpdatesCache ==
  /\ \E request \in InFlight :
       /\ request.pc = "settled"
       /\ request.handler = "openDisplayMenuItem"
       /\ completed' = Done("openDisplayMenuItem", request.shown,
                            ToggleToast(request), <<>>, <<>>)
       /\ inflight' = Remove(request)
       /\ screenList' =
            IF ToggleToast(request) \in {"Screen Mirroring Stopped", "Screen Mirroring Started"}
            THEN [i \in 1..Len(screenList) |->
                    IF screenList[i].title # request.shown THEN screenList[i]
                    ELSE IF Includes(request.shown, ActiveMarker)
                      THEN Available(StripMarker(request.shown))
                    ELSE Active(request.shown)]
            ELSE screenList
  /\ isLoading' = FALSE
  /\ UNCHANGED <<launchContext, effectDue, autoToggled, domVars, luaVars>>

ResumeOpenDisplayMenuItem ==
  /\ \E request \in InFlight :
       /\ request.pc = "settled"
       /\ request.handler = "openDisplayMenuItem"
       /\ completed' = Done("openDisplayMenuItem", request.shown,
                            ToggleToast(request), <<>>, <<>>)
       /\ inflight' = Remove(request)
  /\ isLoading' = FALSE
  /\ UNCHANGED <<screenList, launchContext, effectDue, autoToggled, domVars, luaVars>>

\* findScreenMirroringMenuItem from its await to the end of finally; a new
\* screenList is a changed dependency of the effect.
ResumeFindScreenMirroringMenuItem ==
  /\ \E request \in InFlight :
       /\ request.pc = "settled"
       /\ request.handler = "findScreenMirroringMenuItem"
       /\ LET rejected == request.promise.state = "rejected"
              displays == IF rejected THEN <<>> ELSE request.promise.value
          IN /\ screenList' = CacheAfter(displays, screenList)
             /\ effectDue' = (effectDue \/ (~rejected /\ Len(displays) > 0))
             /\ completed' = Done("findScreenMirroringMenuItem", <<>>,
                                  IF rejected THEN "Error"
                                  ELSE IF Len(displays) > 0
                                    THEN "Screen Mirroring Menu Found!"
                                    ELSE "Screen Mirroring Menu Not Found",
                                  displays, screenList)
       /\ inflight' = Remove(request)
  /\ isLoading' = FALSE
  /\ UNCHANGED <<launchContext, autoToggled, domVars, luaVars>>

\* The async function of the effect from its await on.
ResumeAutoToggle ==
  /\ \E request \in InFlight :
       /\ request.pc = "settled"
       /\ request.handler = "autoToggle"
       /\ completed' = Done("autoToggle", request.shown,
            IF request.promise.state = "rejected" THEN "Error"
            ELSE IF Truthy(request.promise.value.success)
              THEN IF Includes(request.shown, MarkerText)
                   THEN "HUD: Screen mirroring stopped" ELSE "HUD: Screen mirroring started"
            ELSE "Failed to Toggle Display",
            <<>>, <<>>)
       /\ inflight' = Remove(request)
  /\ UNCHANGED <<screenList, isLoading, launchContext, effectDue, autoToggled, domVars, luaVars>>

InitUI ==
  /\ screenList \in UILists
  /\ isLoading = FALSE
  /\ launchContext \in {NoName, <<"tv">>, <<"office">>}
  /\ effectDue = TRUE
  /\ autoToggled = "never"
  /\ inflight = EmptyBag
  /\ completed = Idle
  /\ DomainAtRest
  /\ LuaAtRest

NextUI ==
  \/ AutoToggleEffect
  \/ ItemAction
  \/ RefreshAction
  \/ BridgeAnswersUI
  \/ ResumeOpenDisplayMenuItem
  \/ ResumeFindScreenMirroringMenuItem
  \/ ResumeAutoToggle

SpecUI == InitUI /\ [][NextUI]_vars

----------------------------------------------------------------------------
(* Claims about the component (SpecUI) *)

ToggleHandlers == {"openDisplayMenuItem", "autoToggle"}

\* C5 as claimed: every toggle call the UI issues, from a list item's action
\* or from the quicklink effect, passes a title without the active marker.
C5_UIPassesStrippedTitle ==
  \A request \in InFlight :
    request.handler \in ToggleHandlers => ~Includes(request.arg, ActiveMarker)

RefreshCompleted == completed.pc = "done" /\ completed.handler = "findScreenMirroringMenuItem"

\* C10 as claimed: once a discovery call has completed the cache equals the
\* list that call produced, the empty list included.
C10_DiscoveryOverwritesCache ==
  RefreshCompleted => screenList = completed.displays

\* C10 amended: once a discovery call has completed, the cache equals the
\* list that call produced when that list is not empty, and is what it was
\* before the call completed when that list is empty.
C10_NonEmptyDiscoveryOverwritesCache ==
  RefreshCompleted =>
    screenList = IF completed.displays # <<>> THEN completed.displays
                 ELSE completed.before

C10_Witness ==
  /\ RefreshCompleted
  /\ completed.before = <<Active(<<"tv">>)>>
  /\ completed.displays = <<Available(<<"tv">>), Active(<<"office">>)>>
  /\ screenList = completed.displays

----------------------------------------------------------------------------
(* Claims about the scripts' results and actions (SpecLua) *)

Returned == lua.pc = "done"
DiscoveryReturned == Returned /\ lua.script \in DiscoveryScripts
ToggleReturned == Returned /\ lua.script \in ToggleScripts

\* The actions of the log that are not waits
Acted == SelectSeq(lua.log, LAMBDA a : a.kind # "usleep")

PressedButton == \E k \in 1..Len(lua.log) : lua.log[k].kind = "AXPress" /\ lua.log[k].tree = "root"
PressedTarget == \E k \in 1..Len(lua.log) : lua.log[k].kind = "AXPress" /\ lua.log[k].tree = "dialog"

\* C11: whatever path a discovery script takes, the object it returns has a
\* boolean found, and when found is false it has no displays.
C11_FoundAlwaysBoolean ==
  DiscoveryReturned =>
    /\ lua.result.t = "object"
    /\ "found" \in DOMAIN lua.result.v
    /\ lua.result.v.found.t = "boolean"
    /\ lua.result.v.found.v = FALSE => "displays" \notin DOMAIN lua.result.v

C11_Witness ==
  /\ DiscoveryReturned /\ lua.script = "generateFindDisplaysLua" /\ lua.stage = "button"
  /\ lua.result = [t |-> "object",
                   v |-> [found |-> JBool(FALSE),
                          error |-> JStr(<<"Screen Mirroring menu not found">>)]]

\* C12: whatever path a toggle script takes, the object it returns has a
\* boolean success, and success is true only when the target element was
\* found and pressed.
C12_SuccessAlwaysBoolean ==
  ToggleReturned =>
    /\ lua.result.t = "object"
    /\ "success" \in DOMAIN lua.result.v
    /\ lua.result.v.success.t = "boolean"
    /\ lua.result.v.success.v => PressedTarget
    /\ lua.stage # "none" => lua.result.v.success.v = FALSE

C12_Witness ==
  /\ ToggleReturned /\ lua.script = "generateToggleDisplayLua"
  /\ lua.result.v.success = JBool(TRUE)
  /\ PressedTarget

\* The entry of a node, as the claim words it: at most one per node
EntryOf(element) ==
  IF element.role = "AXButton" /\ element.title # NilText /\ Includes(element.title, Mirror)
    THEN <<[title |-> element.title, role |-> "AXButton"]>>
  ELSE IF element.role = "AXCheckBox" /\ element.description # NilText
    THEN <<[title |-> element.description, role |-> "AXCheckBox"]>>
  ELSE IF element.role = "AXDisclosureTriangle" /\ element.description # NilText
    THEN <<[title |-> element.description \o <<" ", "(Currently ", "Mirror", "ing)">>,
            role |-> "AXDisclosureTriangle"]>>
  ELSE <<>>

\* The entries of a pre-order list of nodes, from the i-th on
RECURSIVE EntriesFrom(_, _)
EntriesFrom(nodes, i) ==
  IF i > Len(nodes) THEN <<>>
  ELSE EntryOf(nodes[i].element) \o EntriesFrom(nodes, i + 1)

\* The depth of the deepest node of a tree
DepthOf(tree) ==
  LET nodes == NodesOf(tree, <<>>)
  IN CHOOSE d \in {Len(nodes[i].path) : i \in 1..Len(nodes)} :
       \A i \in 1..Len(nodes) : Len(nodes[i].path) <= d

Collected == DiscoveryReturned /\ lua.stage = "none"

\* C13: for a dialog tree of depth at most 10 the displays of the result are
\* exactly the entries of its nodes in pre-order, children in document order,
\* duplicates kept and nothing else added.
C13_DisplaysInPreOrder ==
  (Collected /\ DepthOf(DialogWindow) <= 10) =>
    Prop(lua.result, "displays") = JArray(EntriesFrom(NodesOf(DialogWindow, <<>>), 1))

C13_Witness ==
  /\ Collected
  /\ DialogWindow = Generic(Panel)
  /\ Prop(lua.result, "displays").v =
       <<[title |-> <<"tv">>, role |-> "AXCheckBox"],
         [title |-> <<"office", " ", "(Currently ", "Mirror", "ing)">>,
          role |-> "AXDisclosureTriangle"],
         [title |-> <<"Mirror", " Built-in Display">>, role |-> "AXButton"],
         [title |-> <<"tv">>, role |-> "AXCheckBox"]>>

\* The paths of the nodes of a tree that carry the description "Screen
\* Mirroring", and of those whose title or description is the target, in
\* pre-order
ButtonPaths(tree) ==
  LET nodes == NodesOf(tree, <<>>)
  IN SelectSeq([i \in 1..Len(nodes) |-> nodes[i]],
               LAMBDA n : n.element.description = ScreenMirroring)

TargetPaths(tree, target) ==
  LET nodes == NodesOf(tree, <<>>)
  IN SelectSeq([i \in 1..Len(nodes) |-> nodes[i]],
               LAMBDA n : n.element.title = target \/ n.element.description = target)

Within(nodes, depth) == SelectSeq(nodes, LAMBDA n : Len(n.path) <= depth)

Succeeded == ToggleReturned /\ Prop(lua.result, "success") = JBool(TRUE)

\* C14 as claimed: a toggle run that returns success has pressed the first
\* pre-order node described "Screen Mirroring", then the first pre-order node
\* of the dialog whose title or description is the identifier, then Escape,
\* once each and in this order, before the result exists.
C14_PressPressEscape ==
  /\ Succeeded =>
       /\ ButtonPaths(world.root) # <<>>
       /\ TargetPaths(DialogWindow, lua.target) # <<>>
       /\ Acted = <<Press("root", ButtonPaths(world.root)[1].path),
                    Press("dialog", TargetPaths(DialogWindow, lua.target)[1].path),
                    KeyStroke("escape")>>
  /\ Prop(lua.result, "success") = JBool(TRUE) => Returned

\* C14 amended: a toggle run that returns success has pressed the first
\* pre-order node at depth at most 10 described "Screen Mirroring", then the
\* first pre-order node at depth at most 10 of the dialog whose title or
\* description is the identifier, then Escape, once each and in this order,
\* and the success result exists only after the Escape; a matching node deeper
\* than 10 is passed over even when it comes first in pre-order.
C14_PressPressEscapeWithinDepth ==
  /\ Succeeded =>
       LET buttons == Within(ButtonPaths(world.root), 10)
           targets == Within(TargetPaths(DialogWindow, lua.target), 10)
       IN /\ buttons # <<>>
          /\ targets # <<>>
          /\ Acted = <<Press("root", buttons[1].path),
                       Press("dialog", targets[1].path),
                       KeyStroke("escape")>>
  /\ Prop(lua.result, "success") = JBool(TRUE) => Returned

\* A success on a tree whose first "Screen Mirroring" node is too deep.
C14_Witness ==
  /\ Succeeded
  /\ Len(ButtonPaths(world.root)[1].path) > 10
  /\ Acted = <<Press("root", <<2>>), Press("dialog", <<1, 1>>), KeyStroke("escape")>>

\* C20 as claimed: a run that pressed the Screen Mirroring element has issued
\* an Escape key press by the time it returns, whether it succeeded or failed.
C20_EscapeBeforeReturn ==
  (Returned /\ PressedButton) =>
    \E k \in 1..Len(lua.log) : lua.log[k] = KeyStroke("escape")

----------------------------------------------------------------------------
(* Claims about malformed answers, pass-through and retries (SpecDomain) *)

ToggleSettled == call.pc = "settled" /\ call.fn \in ToggleFns
Answered == call.outcome.kind = "text" /\ call.outcome.text.json
Answer == call.outcome.text.value

\* The answer is a JSON object with a boolean success
WellFormed == Answered /\ Answer.t = "object" /\ Prop(Answer, "success").t = "boolean"

\* C15 as claimed: an answer that is not JSON, or is JSON without the fields
\* of a toggle result, makes toggleDisplay resolve to the generic failure.
C15_MalformedGivesGenericFailure ==
  (ToggleSettled /\ call.outcome.kind = "text" /\ ~WellFormed) =>
    call.promise = Fulfilled(GenericFailure)

\* C15 amended: an answer that is not JSON, or is the JSON null, makes
\* toggleDisplay resolve to the generic failure; any other JSON answer without
\* a boolean success makes it resolve to success = false with the answer's own
\* message and error (undefined when the answer has none), which is not the
\* generic failure.
C15_UnparsableGivesGenericFailure ==
  (ToggleSettled /\ call.outcome.kind = "text" /\ ~WellFormed) =>
    IF ~Answered \/ Answer.t = "null"
    THEN call.promise = Fulfilled(GenericFailure)
    ELSE /\ call.promise.state = "fulfilled"
         /\ call.promise.value.success = JBool(FALSE)
         /\ call.promise.value.message = Prop(Answer, "message")
         /\ call.promise.value.error = Prop(Answer, "error")
         /\ call.promise.value # GenericFailure

C15_Witness ==
  /\ ToggleSettled /\ call.fn = "toggleDisplay"
  /\ call.outcome = Text(JsonText(JObject([message |-> JStr(<<"ok">>)])))
  /\ call.promise.value =
       [success |-> JBool(FALSE), message |-> JStr(<<"ok">>), error |-> Undefined]

\* C16: an answer that is a JSON object with a boolean success is passed
\* through: the result's success, message and error are the answer's.
C16_WellFormedPassedThrough ==
  (ToggleSettled /\ WellFormed) =>
    /\ call.promise.state = "fulfilled"
    /\ call.promise.value.success = Prop(Answer, "success")
    /\ call.promise.value.message = Prop(Answer, "message")
    /\ call.promise.value.error = Prop(Answer, "error")

C16_Witness ==
  /\ ToggleSettled /\ call.fn = "toggleDisplay" /\ call.arg = <<"tv">>
  /\ WellFormed
  /\ Answer = JObject([success |-> JBool(TRUE), message |-> JStr(<<"Clicked on ", "tv">>)])
  /\ call.promise.value =
       [success |-> JBool(TRUE), message |-> JStr(<<"Clicked on ", "tv">>),
        error |-> Undefined]

\* What a domain function reports when its one attempt failed
FinalFailure(fn) == IF fn \in ToggleFns THEN GenericFailure ELSE <<>>

\* C18: a call of a domain function passes its script to the bridge exactly
\* once, and a rejected attempt is reported as the final result.
C18_NoRetry ==
  call.pc # "idle" =>
    /\ call.sent = <<call.script>>
    /\ (call.pc = "settled" /\ call.outcome = Reject) =>
         call.promise = Fulfilled(FinalFailure(call.fn))

C18_Witness ==
  /\ call.pc = "settled" /\ call.fn = "findDisplays"
  /\ call.outcome = Reject
  /\ Len(call.sent) = 1
  /\ call.promise = Fulfilled(<<>>)

----------------------------------------------------------------------------
(* Claims about repeated discovery (SpecLua): the accessibility state is    *)
(* the same for every run of a behaviour                                    *)

\* The list the domain function of a discovery script makes of what it printed
ListOf(script, result) ==
  IF script = "findDisplays.getCode"
  THEN findDisplays(Text(JsonText(result)))
  ELSE findScreenMirroringDisplays(Text(JsonText(result)))

RanTwice == DiscoveryReturned /\ lua.previous.script = lua.script

----------------------------------------------------------------------------
(* Claims about overlapping refreshes (SpecUI) *)

\* A discovery request whose call has settled and whose handler has yet to resume
SettledRefresh(request) ==
  /\ request.handler = "findScreenMirroringMenuItem"
  /\ request.pc = "settled"
  /\ request.promise.state = "fulfilled"

\* C17: however refreshes overlap, every change of the cache replaces it by
\* the whole result of one discovery call, the one whose handler resumes in
\* that step; the cache is never a merge or a part of two results.
C17_CacheIsOneWholeResult ==
  [][screenList' # screenList =>
       \E request \in InFlight :
         /\ SettledRefresh(request)
         /\ screenList' = request.promise.value
         /\ inflight' = Remove(request)
         /\ completed'.handler = "findScreenMirroringMenuItem"
         /\ completed'.displays = screenList']_vars

\* One refresh has written its result while another, with a different
\* result, is about to resume.
C17_Witness ==
  /\ RefreshCompleted
  /\ completed.displays # <<>>
  /\ screenList = completed.displays
  /\ \E request \in InFlight :
       /\ SettledRefresh(request)
       /\ request.promise.value # <<>>
       /\ request.promise.value # screenList

----------------------------------------------------------------------------
(* Claims about failing fast (SpecLua) *)

EarlyStages == {"app", "ax", "button"}

\* C21: a run that fails because the application, its accessibility element
\* or the "Screen Mirroring" element is not found has pressed nothing and
\* struck no key when it returns its failure.
C21_FailFastNoActions ==
  (Failed /\ lua.stage \in EarlyStages) =>
    /\ lua.log = <<>>
    /\ StructuredFailure(lua.script, lua.result)

C21_Witness ==
  /\ Failed /\ lua.stage = "button" /\ lua.script = "toggleDisplay.getCode"
  /\ lua.searches # <<>>
  /\ lua.log = <<>>

----------------------------------------------------------------------------
(* Claims about the quicklink effect (SpecUI) *)

\* C22 as claimed: whatever happens after a launch with a remembered display
\* name, the effect calls toggleDisplayMirroring no more than once.
C22_AutoToggleAtMostOnce == autoToggled # "again"

----------------------------------------------------------------------------
(* Claims about the loading flag, the notifications and the cache (SpecUI) *)

ActionHandlers == {"openDisplayMenuItem", "findScreenMirroringMenuItem"}

\* C23 as claimed: while a toggle or discovery request started by an action is
\* in flight isLoading is true, so isLoading is false only when none is.
C23_LoadingWhileInFlight ==
  (\E request \in InFlight : request.handler \in ActionHandlers) => isLoading

ToggleSucceeded ==
  /\ completed.pc = "done" /\ completed.handler = "openDisplayMenuItem"
  /\ completed.toast \in {"Screen Mirroring Stopped", "Screen Mirroring Started"}

\* C24 as claimed: after a successful toggle from a list item the notification
\* is titled "Screen Mirroring Stopped" when the item was shown as currently
\* mirroring and "Screen Mirroring Started" when it was not.
C24_ToastNamesTheDirection ==
  ToggleSucceeded =>
    completed.toast = IF Includes(completed.shown, ActiveMarker)
                      THEN "Screen Mirroring Stopped"
                      ELSE "Screen Mirroring Started"

\* A step in which a toggle request starts, settles or resumes
ToggleStep ==
  \E request \in InFlight \cup BagToSet(inflight') :
    /\ request.handler \in ToggleHandlers
    /\ CopiesIn(request, inflight') # CopiesIn(request, inflight)

\* C25: no step of a toggle call changes the cached list, marker suffixes
\* included; when the cache changes, a discovery call that returned a
\* non-empty list has just completed.
C25_OnlyDiscoveryChangesCache ==
  [][/\ ToggleStep => screenList' = screenList
     /\ screenList' # screenList =>
          /\ completed'.pc = "done"
          /\ completed'.handler = "findScreenMirroringMenuItem"
          /\ completed'.displays # <<>>
          /\ completed'.before = screenList]_vars

\* A toggle of an entry cached as currently mirroring has succeeded and the
\* entry is cached as before.
C25_Witness ==
  /\ ToggleSucceeded
  /\ completed.shown = <<"tv">> \o ActiveMarker
  /\ screenList = <<Active(<<"tv">>)>>

----------------------------------------------------------------------------
(* Claims about the success envelope and the two implementations (SpecLua) *)

\* C26: in the success envelope of a discovery run displayCount is the length
\* of displays, displayTitles is as long as displays, and its i-th element is
\* the title of the i-th display.
C26_TitlesAndCountMatchDisplays ==
  Collected =>
    LET displays == Prop(lua.result, "displays").v
        displayTitles == Prop(lua.result, "displayTitles").v
    IN /\ Prop(lua.result, "displayCount") = JNum(Len(displays))
       /\ Len(displayTitles) = Len(displays)
       /\ \A i \in 1..Len(displays) : displayTitles[i] = JStr(displays[i].title)

\* A discovery run has returned an envelope listing several displays, one of
\* them currently mirroring.
C26_Witness ==
  /\ Collected
  /\ Len(Prop(lua.result, "displays").v) >= 3
  /\ \E i \in 1..Len(Prop(lua.result, "displays").v) :
       Includes(Prop(lua.result, "displays").v[i].title, ActiveMarker)
  /\ Prop(lua.result, "displayCount") = JNum(Len(Prop(lua.result, "displayTitles").v))

\* What the caller of the domain function gets for a script's printed result
ResolvedOf(script, result) ==
  CASE script = "findDisplays.getCode" -> findDisplays(Text(JsonText(result)))
    [] script = "generateFindDisplaysLua" -> findScreenMirroringDisplays(Text(JsonText(result)))
    [] script = "toggleDisplay.getCode" -> toggleDisplay(Text(JsonText(result)))
    [] script = "generateToggleDisplayLua" -> toggleDisplayMirroring(Text(JsonText(result)))

NotWait(a) == a.kind # "usleep"

\* The script of the other implementation has just run on the same tree and
\* window list, for the same identifier.
TwinsRan ==
  /\ Returned
  /\ lua.previous.script # lua.script
  /\ {lua.previous.script, lua.script} \in {DiscoveryScripts, ToggleScripts}
  /\ lua.previous.arg = lua.arg

\* C27: on the same tree and window list the scripts of the two
\* implementations perform the same presses and key strokes and their domain
\* functions resolve to the same value; for the same identifier both toggle
\* scripts are intact or neither is; and on the same bridge outcome
\* findDisplays and findScreenMirroringDisplays resolve to the same list,
\* toggleDisplay and toggleDisplayMirroring to the same result.
C27_ImplementationsEquivalent ==
  /\ TwinsRan =>
       /\ ResolvedOf(lua.script, lua.result)
            = ResolvedOf(lua.previous.script, lua.previous.result)
       /\ SelectSeq(lua.log, NotWait) = SelectSeq(lua.previous.log, NotWait)
  /\ lua.pc = "idle" =>
       /\ \A T \in LuaTargets :
            /\ ScriptIntact(getCode(T)) <=> ScriptIntact(generateToggleDisplayLua(T))
            /\ ScriptTarget(getCode(T)) = ScriptTarget(generateToggleDisplayLua(T))
            /\ \A outcome \in ToggleOutcomes(getCode(T)) \cup ToggleOutcomes(generateToggleDisplayLua(T)) :
                 toggleDisplay(outcome) = toggleDisplayMirroring(outcome)
       /\ \A outcome \in DiscoveryOutcomes :
            findDisplays(outcome) = findScreenMirroringDisplays(outcome)

\* Both toggle scripts have run for the same identifier, one after the other,
\* and each has pressed the element and reported success.
C27_Witness ==
  /\ TwinsRan
  /\ Succeeded
  /\ lua.script = "generateToggleDisplayLua"
  /\ Prop(lua.previous.result, "success") = JBool(TRUE)
  /\ Len(SelectSeq(lua.previous.log, NotWait)) = 3

=============================================================================
